---------------------------- MODULE Spec2Model ----------------------------
(***************************************************************************)
(* Model of the CommodityMomentum backtester:                              *)
(*   src/commomentum.py  cross-sectional momentum backtest                 *)
(*   src/sma.py          moving-average crossover backtest and grid search *)
(*   src/load_data.py    outlier repair of a return series                 *)
(*                                                                         *)
(* Floating point values are modelled as exact rationals.  A value is a    *)
(* tuple: <<>> is NaN (a missing value), <<n, d>> with d >= 1 is n/d in    *)
(* lowest terms.                                                           *)
(* Arithmetic propagates NaN and every comparison with NaN is FALSE, as    *)
(* for IEEE floats; reductions (sum, mean, std, min, cumsum, cumprod ...)  *)
(* skip NaN as pandas does by default.                                     *)
(***************************************************************************)
EXTENDS Integers, Sequences, FiniteSets, TLC

VARIABLES
    pc,             \* the object built, then the operation that has completed on it
    row, top_n,     \* the score row and bucket size handed to the row ranker
    row_signal,     \* the row ranker's result
    data,           \* CommodityMomentum.data: the return panel, a sequence of rows
    K, X, RiskFreeRate,   \* arguments of the momentum backtest
    results,        \* the value commodity_momentum_strategy / compare_momentum_periods returns
    returns,        \* LoadData.remove_outliers: the input series
    period,         \* LoadData.remove_outliers: the period name
    cleaned_data,   \* LoadData.remove_outliers: the returned series
    df,             \* SMAStrategy.df: the data frame, a record of columns
    sma             \* SMAStrategy: arguments, locals and outcome of the last run

vars == <<pc, row, top_n, row_signal, data, K, X, RiskFreeRate, results,
          returns, period, cleaned_data, df, sma>>

rankVars == <<row, top_n, row_signal>>
momVars == <<data, K, X, RiskFreeRate, results>>
outVars == <<returns, period, cleaned_data>>
smaVars == <<df, sma>>

---------------------------------------------------------------------------
(* Floats as rationals with NaN *)

NaN == <<>>

IsNaN(x) == x = <<>>

Num(x) == x[1]

Den(x) == x[2]

R(n) == <<n, 1>>

Abs(n) == IF n < 0 THEN -n ELSE n

\* float == and <, > : FALSE as soon as one side is NaN
REq(x, y) == ~IsNaN(x) /\ ~IsNaN(y) /\ Num(x) * Den(y) = Num(y) * Den(x)

RLt(x, y) == ~IsNaN(x) /\ ~IsNaN(y) /\ Num(x) * Den(y) < Num(y) * Den(x)

RGt(x, y) == RLt(y, x)

RLe(x, y) == RLt(x, y) \/ REq(x, y)

\* float != : TRUE as soon as one side is NaN
RNe(x, y) == ~REq(x, y)

RECURSIVE GCD(_, _)
GCD(a, b) == IF b = 0 THEN a ELSE GCD(b, a % b)

\* n/d in lowest terms, for d >= 1
Frac(n, d) == LET g == GCD(Abs(n), d) IN <<n \div g, d \div g>>

RAdd(x, y) ==
    IF IsNaN(x) \/ IsNaN(y) THEN NaN
    ELSE Frac(Num(x) * Den(y) + Num(y) * Den(x), Den(x) * Den(y))

RNeg(x) == IF IsNaN(x) THEN NaN ELSE <<-Num(x), Den(x)>>

RSub(x, y) == RAdd(x, RNeg(y))

RMul(x, y) ==
    IF IsNaN(x) \/ IsNaN(y) THEN NaN
    ELSE Frac(Num(x) * Num(y), Den(x) * Den(y))

\* x / n for an integer n >= 1
RDivInt(x, n) == IF IsNaN(x) THEN NaN ELSE Frac(Num(x), Den(x) * n)

RAbs(x) == IF IsNaN(x) THEN NaN ELSE <<Abs(Num(x)), Den(x)>>

\* the sequence s as a tuple of evaluated values: a series the code has computed
Series(s) == s \o <<>>

\* the indices of s holding a value
Defined(s) == {i \in DOMAIN s : ~IsNaN(s[i])}

RECURSIVE SumUpTo(_, _)
\* sum of the defined values among s[1..n] (0 when there is none): skipna
SumUpTo(s, n) ==
    IF n = 0 THEN R(0)
    ELSE IF IsNaN(s[n]) THEN SumUpTo(s, n - 1)
    ELSE RAdd(SumUpTo(s, n - 1), s[n])

\* Series.sum(): NaN skipped, 0 for an empty or all-NaN series
Sum(s) == SumUpTo(s, Len(s))

Count(s) == Cardinality(Defined(s))

\* Series.mean(): NaN skipped, NaN when no value is left
Mean(s) == IF Count(s) = 0 THEN NaN ELSE RDivInt(Sum(s), Count(s))

Squares(s) == Series([i \in DOMAIN s |-> RMul(s[i], s[i])])

\* Series.var() with ddof = 1: NaN with fewer than two values
Var(s) ==
    LET n == Count(s)
    IN  IF n < 2 THEN NaN
        ELSE RDivInt(RSub(RMul(R(n), Sum(Squares(s))), RMul(Sum(s), Sum(s))),
                     n * (n - 1))

\* Series.shift(1): each value moves one place down, the first becomes NaN
Shift(s) == Series([i \in DOMAIN s |-> IF i = 1 THEN NaN ELSE s[i - 1]])

---------------------------------------------------------------------------
(* commomentum.py: the cross-sectional signal of one row *)

\* row.rank(ascending=True, method='min', na_option='keep'): the ranking with
\* the smallest score first
RankAscending(r) ==
    Series([i \in DOMAIN r |->
        IF IsNaN(r[i]) THEN NaN
        ELSE R(1 + Cardinality({j \in DOMAIN r : RLt(r[j], r[i])}))])

\* row.rank(ascending=False, method='min', na_option='keep'): a defined score's
\* rank is one more than the number of scores strictly above it; NaN keeps NaN
Rank(r) ==
    Series([i \in DOMAIN r |->
        IF IsNaN(r[i]) THEN NaN
        ELSE R(1 + Cardinality({j \in DOMAIN r : RGt(r[j], r[i])}))])

\* (mask).astype(int)
AsInt(b) == IF b THEN 1 ELSE 0

long_positions(r, n) ==
    LET ranked == Rank(r)
    IN  Series([i \in DOMAIN r |-> AsInt(RLe(ranked[i], R(n)))])

short_positions(r, n) ==
    LET ranked == Rank(r)
    IN  Series([i \in DOMAIN r |-> -1 * AsInt(RGt(ranked[i], R(Len(r) - n)))])

get_top_bottom_commodities(r, topN, bottomN) ==
    LET long == long_positions(r, topN)
        short == short_positions(r, bottomN)
    IN  Series([i \in DOMAIN r |-> long[i] + short[i]])

---------------------------------------------------------------------------
(* commomentum.py: the momentum backtest *)

\* the panel's column names; a row is a sequence with one value per column
Columns == <<"Gold", "Silver">>

Column(panel, a) == [t \in 1..Len(panel) |-> panel[t][a]]

\* Series.rolling(window=w).sum() at row t: NaN until the window is full and
\* whenever the window holds a NaN (min_periods defaults to the window)
RollingSumAt(s, w, t) ==
    IF t < w \/ \E u \in (t - w + 1)..t : IsNaN(s[u]) THEN NaN
    ELSE Sum([u \in 1..w |-> s[t - w + u]])

\* self.data.rolling(window=range).sum(): column by column
generate_rolling_returns(panel, range) ==
    Series([t \in 1..Len(panel) |->
        Series([a \in DOMAIN Columns |-> RollingSumAt(Column(panel, a), range, t)])])

\* rolling_data.apply(get_top_bottom_commodities, axis=1)
TradingSignals(rolling_data, k) ==
    Series([t \in 1..Len(rolling_data) |->
        get_top_bottom_commodities(rolling_data[t], k, k)])

\* trading_signals.shift(1): the first row becomes NaN, the integers floats
ShiftedSignals(signals) ==
    Series([t \in 1..Len(signals) |->
        Series([a \in DOMAIN Columns |-> IF t = 1 THEN NaN ELSE R(signals[t - 1][a])])])

\* trading_signals left in place: what line 41 would apply without shift(1)
UnshiftedSignals(signals) ==
    Series([t \in 1..Len(signals) |-> Series([a \in DOMAIN Columns |-> R(signals[t][a])])])

\* the positions applied at each row: line 41's trading_signals.shift(1)
AppliedSignals(signals) == ShiftedSignals(signals)

\* DataFrame.sum(axis=1) of one row: NaN skipped, min_count = 0
RowSum(r) == Sum(r)

\* (trading_signals.shift(1) * self.data).sum(axis=1) / (2 * K)
StrategyReturns(signals, panel, k) ==
    LET applied == AppliedSignals(signals)
    IN  Series([t \in 1..Len(panel) |->
            RDivInt(RowSum([a \in DOMAIN Columns |-> RMul(applied[t][a], panel[t][a])]),
                    2 * k)])

\* Series.cumsum(): NaN stays NaN and is skipped by the running sum
CumSum(s) == Series([t \in DOMAIN s |-> IF IsNaN(s[t]) THEN NaN ELSE SumUpTo(s, t)])

RMax(x, y) == IF RLt(x, y) THEN y ELSE x

RMin(x, y) == IF RLt(y, x) THEN y ELSE x

RECURSIVE MaxUpTo(_, _)
\* the largest defined value among s[1..n]; NaN when there is none
MaxUpTo(s, n) ==
    IF n = 0 THEN NaN
    ELSE IF IsNaN(s[n]) THEN MaxUpTo(s, n - 1)
    ELSE IF IsNaN(MaxUpTo(s, n - 1)) THEN s[n]
    ELSE RMax(MaxUpTo(s, n - 1), s[n])

RECURSIVE MinUpTo(_, _)
MinUpTo(s, n) ==
    IF n = 0 THEN NaN
    ELSE IF IsNaN(s[n]) THEN MinUpTo(s, n - 1)
    ELSE IF IsNaN(MinUpTo(s, n - 1)) THEN s[n]
    ELSE RMin(MinUpTo(s, n - 1), s[n])

\* Series.cummax(): NaN stays NaN
CumMax(s) == Series([t \in DOMAIN s |-> IF IsNaN(s[t]) THEN NaN ELSE MaxUpTo(s, t)])

\* the first value carried forward: a running maximum that is never updated
CumMaxFromStart(s) == Series([t \in DOMAIN s |-> IF IsNaN(s[t]) THEN NaN ELSE s[1]])

\* cum_returns.cummax()
RunningMax(cum_returns) == CumMax(cum_returns)

\* cum_returns - running_max
Drawdowns(cum_returns) ==
    LET running_max == RunningMax(cum_returns)
    IN  Series([t \in DOMAIN cum_returns |-> RSub(cum_returns[t], running_max[t])])

\* Series.min(): NaN skipped, NaN for an empty series
SeriesMin(s) == MinUpTo(s, Len(s))

\* A standard deviation is the square root of a variance q and is kept as
\* Root(q); a Sharpe ratio is either the literal 0 of the guard or a quotient
\* v / sqrt(q), kept with its operands.
MonthsPerYear == 12

Root(q) == [sq |-> q]

\* strategy_returns.std() * np.sqrt(12), as the root of var * 12
AnnualizedStdDev(s) == Root(RMul(Var(s), R(MonthsPerYear)))

\* root != 0 and root == 0 on floats (NaN != 0 is TRUE)
RootIsZero(r) == REq(r.sq, R(0))

Quotient(v, r) == [kind |-> "quotient", num |-> v, sq |-> r.sq]

Zero == [kind |-> "zero"]

\* the quotient of line 44 without its guard
SharpeUnguarded(ann_returns, rf, ann_std) == Quotient(RSub(ann_returns, rf), ann_std)

\* (annualized_returns - RiskFreeRate) / annualized_std_dev if annualized_std_dev != 0 else 0
Sharpe(ann_returns, rf, ann_std) ==
    IF ~RootIsZero(ann_std) THEN Quotient(RSub(ann_returns, rf), ann_std) ELSE Zero

\* Series.cumprod() of 1 + s: NaN stays NaN and is skipped by the running product
RECURSIVE ProdUpTo(_, _)
ProdUpTo(s, n) ==
    IF n = 0 THEN R(1)
    ELSE IF IsNaN(s[n]) THEN ProdUpTo(s, n - 1)
    ELSE RMul(ProdUpTo(s, n - 1), s[n])

CumProd(s) == Series([t \in DOMAIN s |-> IF IsNaN(s[t]) THEN NaN ELSE ProdUpTo(s, t)])

OnePlus(s) == Series([t \in DOMAIN s |-> RAdd(R(1), s[t])])

\* (1 + s).cumprod().iloc[-1] - 1
FinalCompounded(s) == RSub(CumProd(OnePlus(s))[Len(s)], R(1))

\* the value commodity_momentum_strategy(K, X, RiskFreeRate) returns
MomentumResults(panel, k, x, rf) ==
    LET rolling_data == generate_rolling_returns(panel, x)
        trading_signals == TradingSignals(rolling_data, k)
        strategy_returns == StrategyReturns(trading_signals, panel, k)
        annualized_returns == RMul(Mean(strategy_returns), R(MonthsPerYear))
        annualized_std_dev == AnnualizedStdDev(strategy_returns)
        sharpe == Sharpe(annualized_returns, rf, annualized_std_dev)
        cum_returns == CumSum(strategy_returns)
        max_drawdown == SeriesMin(Drawdowns(cum_returns))
    IN  [Strategy_Returns |-> strategy_returns,
         Cumulative_Returns |-> cum_returns,
         Signal |-> trading_signals,
         Rolling |-> rolling_data,
         Return |-> panel,
         attrs |-> [Sharpe_Ratio |-> sharpe,
                    Max_Drawdown |-> max_drawdown,
                    Annualized_Return |-> annualized_returns,
                    Annualized_StdDev |-> annualized_std_dev]]

\* one pass of compare_momentum_periods' loop: results[period], with the
\* loop's locals signals and strategy_returns kept beside the metrics
ComparePeriod(panel, prd, k, rf) ==
    LET roll_data == generate_rolling_returns(panel, prd)
        signals == TradingSignals(roll_data, k)
        strategy_returns == StrategyReturns(signals, panel, k)
        ann_returns == RMul(Mean(strategy_returns), R(MonthsPerYear))
        ann_std_dev == AnnualizedStdDev(strategy_returns)
        sharpe == Sharpe(ann_returns, rf, ann_std_dev)
        cum_returns == IF Len(strategy_returns) # 0 THEN FinalCompounded(strategy_returns)
                       ELSE R(0)
    IN  [Annualized_Return |-> ann_returns,
         Annualized_StdDev |-> ann_std_dev,
         Sharpe_Ratio |-> sharpe,
         Cumulative_Return |-> cum_returns,
         signals |-> signals,
         strategy_returns |-> strategy_returns]

\* the table compare_momentum_periods(range, K, RiskFreeRate) returns: one row per period
CompareResults(panel, range, k, rf) ==
    [prd \in {range[i] : i \in DOMAIN range} |-> ComparePeriod(panel, prd, k, rf)]

---------------------------------------------------------------------------
(* sma.py: the crossover backtest and its grid search *)

\* x / y for y > 0
RDiv(x, y) ==
    IF IsNaN(x) \/ IsNaN(y) THEN NaN
    ELSE Frac(Num(x) * Den(y), Den(x) * Num(y))

\* Series.pct_change(): s[t] / s[t-1] - 1, NaN at the first row
PctChange(s) ==
    Series([t \in DOMAIN s |-> IF t = 1 THEN NaN ELSE RSub(RDiv(s[t], s[t - 1]), R(1))])

\* Series.rolling(window=w).mean(): NaN until the window is full and whenever
\* the window holds a NaN
RollingMean(s, w) ==
    Series([t \in DOMAIN s |-> RDivInt(RollingSumAt(s, w, t), w)])

\* (SMA_short >= SMA_long).astype(int) - (SMA_short < SMA_long).astype(int)
CrossoverSignalGe(SMA_short, SMA_long) ==
    Series([t \in DOMAIN SMA_short |->
        AsInt(RLe(SMA_long[t], SMA_short[t])) - AsInt(RLt(SMA_short[t], SMA_long[t]))])

\* (SMA_short > SMA_long).astype(int) - (SMA_short < SMA_long).astype(int)
CrossoverSignal(SMA_short, SMA_long) ==
    Series([t \in DOMAIN SMA_short |->
        AsInt(RGt(SMA_short[t], SMA_long[t])) - AsInt(RLt(SMA_short[t], SMA_long[t]))])

AsFloats(ints) == Series([t \in DOMAIN ints |-> R(ints[t])])

\* self.df['daily_return'] * signal.shift()
CrossoverReturn(daily_return, signal) ==
    LET shifted == Shift(AsFloats(signal))
    IN  Series([t \in DOMAIN daily_return |-> RMul(daily_return[t], shifted[t])])

\* (1 + strategy_return).cumprod() - 1
StrategyCumulative(strategy_return) ==
    LET prod == CumProd(OnePlus(strategy_return))
    IN  Series([t \in DOMAIN prod |-> RSub(prod[t], R(1))])

\* (self.df[col] / self.df[col].iloc[0]) - 1
BaselineCumulative(s) == Series([t \in DOMAIN s |-> RSub(RDiv(s[t], s[1]), R(1))])

\* Series.dropna()
RECURSIVE DropNaN(_)
DropNaN(s) ==
    IF s = <<>> THEN <<>>
    ELSE IF IsNaN(Head(s)) THEN DropNaN(Tail(s))
    ELSE <<Head(s)>> \o DropNaN(Tail(s))

\* the locals of one evaluation of a window pair (lines 26-29 and 43-49)
Crossover(frame, col, short_ma, long_ma) ==
    LET SMA_short == RollingMean(frame[col], short_ma)
        SMA_long == RollingMean(frame[col], long_ma)
        signal == CrossoverSignal(SMA_short, SMA_long)
        strategy_return == CrossoverReturn(frame["daily_return"], signal)
    IN  [SMA_short |-> SMA_short,
         SMA_long |-> SMA_long,
         signal |-> signal,
         strategy_return |-> strategy_return]

\* the data frame with column name set to series
WithColumn(frame, name, series) ==
    [c \in DOMAIN frame \cup {name} |-> IF c = name THEN series ELSE frame[c]]

\* run(): line 14
WithDailyReturn(frame, col) == WithColumn(frame, "daily_return", PctChange(frame[col]))

\* lines 30-31 and 59-60
WithCumulatives(frame, col, strategy_return) ==
    WithColumn(WithColumn(frame, "strategy_cumulative", StrategyCumulative(strategy_return)),
               "baseline_cumulative", BaselineCumulative(frame[col]))

\* the window pairs the double loop of lines 40-42 evaluates, in the order it
\* meets them, over the windows 1..g
RECURSIVE LoopPairs(_, _, _)
LoopPairs(g, short_ma, long_ma) ==
    IF short_ma > g THEN <<>>
    ELSE IF long_ma > g THEN LoopPairs(g, short_ma + 1, 1)
    ELSE (IF short_ma < long_ma THEN <<(<<short_ma, long_ma>>)>> ELSE <<>>)
         \o LoopPairs(g, short_ma, long_ma + 1)

EvaluatedPairs(g) == LoopPairs(g, 1, 1)

\* sorted(items, key=lambda x: x[1], reverse=True): a stable sort, largest key
\* first; items whose keys do not compare (NaN) keep their order
RECURSIVE InsertDescending(_, _)
InsertDescending(sorted, item) ==
    IF sorted = <<>> THEN <<item>>
    ELSE IF RLt(Head(sorted)[2], item[2]) THEN <<item>> \o sorted
    ELSE <<Head(sorted)>> \o InsertDescending(Tail(sorted), item)

\* sorted(items, key=lambda x: x[1]): the same sort without reverse=True
RECURSIVE InsertAscending(_, _)
InsertAscending(sorted, item) ==
    IF sorted = <<>> THEN <<item>>
    ELSE IF RLt(item[2], Head(sorted)[2]) THEN <<item>> \o sorted
    ELSE <<Head(sorted)>> \o InsertAscending(Tail(sorted), item)

RECURSIVE SortedAscending(_)
SortedAscending(items) ==
    IF items = <<>> THEN <<>>
    ELSE InsertAscending(SortedAscending(SubSeq(items, 1, Len(items) - 1)), items[Len(items)])

RECURSIVE SortedDescending(_)
SortedDescending(items) ==
    IF items = <<>> THEN <<>>
    ELSE InsertDescending(SortedDescending(SubSeq(items, 1, Len(items) - 1)), items[Len(items)])

\* line 51's sorted(...)
SortedByReturn(items) == SortedDescending(items)

\* items[:n] for n >= 0
FirstN(items, n) == SubSeq(items, 1, IF n < Len(items) THEN n ELSE Len(items))

TradingDays == 252

\* risk_free_rate = 0.0175
SmaRiskFreeRate == <<7, 400>>

RootIsPositive(r) == RGt(r.sq, R(0))

\* one line of _print_top_strategies; cagr = (1 + cum_return) ** (1 / years) - 1
\* is kept with its operands
ReportLine(item, strategy_std_dev, days_total) ==
    LET annualized_std == Root(RMul(R(TradingDays), strategy_std_dev[item[1]].sq))
        cagr == [base |-> RAdd(R(1), item[2]), days |-> days_total, per_year |-> TradingDays]
    IN  [pair |-> item[1],
         cum_return |-> item[2],
         cagr |-> cagr,
         annualized_std |-> annualized_std,
         sharpe_ratio |-> IF RootIsPositive(annualized_std)
                          THEN [kind |-> "quotient", cagr |-> cagr,
                                rf |-> SmaRiskFreeRate, sq |-> annualized_std.sq]
                          ELSE Zero]

\* _compute_single_sma_strategy(col, short_ma, long_ma), after run()'s line 14
SingleRun(frame, col, short_ma, long_ma) ==
    LET frame1 == WithDailyReturn(frame, col)
        c == Crossover(frame1, col, short_ma, long_ma)
    IN  [df |-> WithCumulatives(frame1, col, c.strategy_return),
         sma |-> [short_ma |-> short_ma, long_ma |-> long_ma,
                  signal |-> c.signal, SMA_short |-> c.SMA_short, SMA_long |-> c.SMA_long,
                  strategy_return |-> c.strategy_return,
                  plotted |-> <<short_ma, long_ma>>,
                  raised |-> "none"]]

\* _compute_best_sma_strategies(col, top_n), after run()'s line 14, over the
\* windows 1..g; the index of the frame holds consecutive days
GridRun(frame, col, n, g) ==
    LET frame1 == WithDailyReturn(frame, col)
        pairs == EvaluatedPairs(g)
        keys == {pairs[i] : i \in DOMAIN pairs}
        locals == [p \in keys |-> Crossover(frame1, col, p[1], p[2])]
        strategy_results == [p \in keys |-> FinalCompounded(locals[p].strategy_return)]
        strategy_std_dev == [p \in keys |-> Root(Var(DropNaN(locals[p].strategy_return)))]
        items == [i \in DOMAIN pairs |-> <<pairs[i], strategy_results[pairs[i]]>>]
        sorted_strategies == FirstN(SortedByReturn(items), n)
        days_total == Len(frame[col]) - 1
        found == [top_n |-> n, evaluated |-> pairs,
                  signals |-> [p \in keys |-> locals[p].signal],
                  SMA_short |-> [p \in keys |-> locals[p].SMA_short],
                  SMA_long |-> [p \in keys |-> locals[p].SMA_long],
                  strategy_returns |-> [p \in keys |-> locals[p].strategy_return],
                  strategy_results |-> strategy_results,
                  sorted_strategies |-> sorted_strategies]
    IN  IF sorted_strategies = <<>>
        THEN \* sorted_strategies[0] of line 52
             [df |-> frame1,
              sma |-> found @@ [plotted |-> <<>>, report |-> <<>>, raised |-> "IndexError"]]
        ELSE LET best == sorted_strategies[1][1]
                 frame2 == WithCumulatives(frame1, col, locals[best].strategy_return)
             IN  IF days_total = 0
                 THEN \* 1 / years of line 83
                      [df |-> frame2,
                       sma |-> found @@ [plotted |-> best, report |-> <<>>,
                                         raised |-> "ZeroDivisionError"]]
                 ELSE [df |-> frame2,
                       sma |-> found @@
                           [plotted |-> best,
                            report |-> [i \in DOMAIN sorted_strategies |->
                                ReportLine(sorted_strategies[i], strategy_std_dev, days_total)],
                            raised |-> "none"]]

---------------------------------------------------------------------------
(* load_data.py: outlier repair *)

PeriodNames == {"daily", "monthly", "quarterly", "yearly"}

DailyThreshold == 1

MonthlyThreshold == 2

QuarterlyThreshold == 5

YearlyThreshold == 5

threshold_map ==
    [p \in PeriodNames |->
        CASE p = "daily" -> R(DailyThreshold)
          [] p = "monthly" -> R(MonthlyThreshold)
          [] p = "quarterly" -> R(QuarterlyThreshold)
          [] p = "yearly" -> R(YearlyThreshold)]

\* abs(data) > threshold
outlier_mask(series, threshold) ==
    [i \in DOMAIN series |-> RGt(RAbs(series[i]), threshold)]

Max2(a, b) == IF a > b THEN a ELSE b

\* data.loc[:idx].tail(4): the slice before its last value, the outlier, is dropped
prev_vals_with_idx(series, idx) == SubSeq(series, Max2(1, idx - 3), idx)

\* data.loc[:idx].tail(4)[:-1]
prev_vals(series, idx) == SubSeq(series, Max2(1, idx - 3), idx - 1)

\* data.loc[idx:].head(4)[1:]
next_vals(series, idx) ==
    SubSeq(series, idx + 1, IF idx + 3 < Len(series) THEN idx + 3 ELSE Len(series))

\* pd.concat([prev_vals, next_vals]).mean()
Replacement(series, idx) == Mean(prev_vals(series, idx) \o next_vals(series, idx))

\* the loop of lines 75-79 from index idx on: every read is of data, every
\* write is to cleaned_data
RECURSIVE RepairFrom(_, _, _, _)
RepairFrom(series, mask, cleaned, idx) ==
    IF idx > Len(series) THEN cleaned
    ELSE IF mask[idx]
         THEN RepairFrom(series, mask, [cleaned EXCEPT ![idx] = Replacement(series, idx)],
                         idx + 1)
         ELSE RepairFrom(series, mask, cleaned, idx + 1)

\* remove_outliers(data, period) for a period of threshold_map
remove_outliers(series, prd) ==
    RepairFrom(series, outlier_mask(series, threshold_map[prd]), series, 1)

---------------------------------------------------------------------------
(* Bounds and input sets *)

MaxAssets == 4

MaxK == 2

ScoreValues == {1, 3, 5}

MaxRows == 3

ReturnValues == {-1, 1}

Lookbacks == {1, 2}

RiskFreeRates == {R(0), <<1, 50>>}

MaxLen == 4

MaxWindow == 3

MaxTopN == 4

Prices == {1, 2, 3}

MaxSeries == 5

SeriesValues == {-6, -2, 1, 3}

RECURSIVE SeqsOfLen(_, _)
SeqsOfLen(S, n) ==
    IF n = 0 THEN {<<>>}
    ELSE {Append(s, v) : s \in SeqsOfLen(S, n - 1), v \in S}

SeqsUpTo(S, lo, hi) == UNION {SeqsOfLen(S, n) : n \in lo..hi}

Floats(S) == {R(v) : v \in S} \cup {NaN}

---------------------------------------------------------------------------
(* Specification of the row ranker *)

Idle == "idle"

MomIdle == /\ data = <<>> /\ K = 0 /\ X = 0 /\ RiskFreeRate = NaN /\ results = <<>>

OutIdle == /\ returns = <<>> /\ period = Idle /\ cleaned_data = <<>>

SmaIdle == /\ df = <<>> /\ sma = <<>>

RankIdle == /\ row = <<>> /\ top_n = 0 /\ row_signal = <<>>

InitRank ==
    /\ pc = "row"
    /\ row \in SeqsUpTo(Floats(ScoreValues), 1, MaxAssets)
    /\ top_n \in 1..MaxK
    /\ row_signal = <<>>
    /\ MomIdle /\ OutIdle /\ SmaIdle

ApplyRowSignal ==
    /\ pc = "row"
    /\ row_signal' = get_top_bottom_commodities(row, top_n, top_n)
    /\ pc' = "ranked"
    /\ UNCHANGED <<row, top_n, momVars, outVars, smaVars>>

NextRank == ApplyRowSignal

SpecRank == InitRank /\ [][NextRank]_vars

---------------------------------------------------------------------------
(* Specification of the momentum backtest *)

PanelRows == SeqsOfLen(Floats(ReturnValues), Len(Columns))

\* the lists of lookback periods handed to compare_momentum_periods
PeriodLists ==
    {<<x>> : x \in Lookbacks} \cup {l \in SeqsOfLen(Lookbacks, 2) : l[1] < l[2]}

InitMomentum ==
    /\ pc = "CommodityMomentum"
    /\ data \in SeqsUpTo(PanelRows, 1, MaxRows)
    /\ K = 0 /\ X = 0 /\ RiskFreeRate = NaN /\ results = <<>>
    /\ RankIdle /\ OutIdle /\ SmaIdle

\* Neither method writes self.data, so a call made after another one returns what
\* the same call returns on the fresh object: one call per object reaches every
\* result.
commodity_momentum_strategy ==
    \E k \in 1..MaxK, x \in Lookbacks, rf \in RiskFreeRates :
        /\ pc = "CommodityMomentum"
        /\ K' = k /\ X' = x /\ RiskFreeRate' = rf
        /\ results' = MomentumResults(data, k, x, rf)
        /\ pc' = "momentum"
        /\ UNCHANGED <<data, rankVars, outVars, smaVars>>

compare_momentum_periods ==
    \E range \in PeriodLists, k \in 1..MaxK, rf \in RiskFreeRates :
        /\ pc = "CommodityMomentum"
        /\ K' = k /\ X' = range[Len(range)] /\ RiskFreeRate' = rf
        /\ results' = CompareResults(data, range, k, rf)
        /\ pc' = "compare"
        /\ UNCHANGED <<data, rankVars, outVars, smaVars>>

NextMomentum == commodity_momentum_strategy \/ compare_momentum_periods

SpecMomentum == InitMomentum /\ [][NextMomentum]_vars

---------------------------------------------------------------------------
(* Specification of the crossover backtest *)

Col == "Close"

\* the last window of moving_averages: range(1, 252) of line 36 cut to 1..MaxWindow
LastWindow == MaxWindow

InitSMA ==
    /\ pc = "SMAStrategy"
    /\ \E prices \in SeqsUpTo({R(v) : v \in Prices}, 1, MaxLen) : df = [c \in {Col} |-> prices]
    /\ sma = <<>>
    /\ RankIdle /\ MomIdle /\ OutIdle

\* run() with the answer 'y' and two windows.  A run writes df's columns and sma
\* from df[col] alone, so a run after another one reaches what it reaches on the
\* fresh frame.
run_single ==
    \E short_ma \in 1..MaxWindow, long_ma \in 1..MaxWindow :
        /\ pc = "SMAStrategy"
        /\ df' = SingleRun(df, Col, short_ma, long_ma).df
        /\ sma' = SingleRun(df, Col, short_ma, long_ma).sma
        /\ pc' = "single"
        /\ UNCHANGED <<rankVars, momVars, outVars>>

\* run() with another answer and the number of strategies to display
run_grid ==
    \E n \in 0..MaxTopN :
        /\ pc = "SMAStrategy"
        /\ df' = GridRun(df, Col, n, LastWindow).df
        /\ sma' = GridRun(df, Col, n, LastWindow).sma
        /\ pc' = "grid"
        /\ UNCHANGED <<rankVars, momVars, outVars>>

NextSMA == run_single \/ run_grid

SpecSMA == InitSMA /\ [][NextSMA]_vars

---------------------------------------------------------------------------
(* Specification of the two backtests together *)

InitBacktest == InitMomentum \/ InitSMA

NextBacktest == NextMomentum \/ NextSMA

SpecBacktest == InitBacktest /\ [][NextBacktest]_vars

---------------------------------------------------------------------------
(* Specification of the outlier repair *)

InitOutlier ==
    /\ pc = "LoadData"
    /\ returns \in SeqsUpTo(Floats(SeriesValues), 0, MaxSeries)
    /\ period = Idle
    /\ cleaned_data = <<>>
    /\ RankIdle /\ MomIdle /\ SmaIdle

\* remove_outliers never writes its input, so one call per series reaches every result
RemoveOutliers ==
    \E prd \in PeriodNames :
        /\ pc = "LoadData"
        /\ period' = prd
        /\ cleaned_data' = remove_outliers(returns, prd)
        /\ pc' = "cleaned"
        /\ UNCHANGED <<returns, rankVars, momVars, smaVars>>

\* a period name threshold_map does not hold: line 66 raises before anything is built
RemoveOutliersInvalidPeriod ==
    \E prd \in {"weekly"} :
        /\ pc = "LoadData"
        /\ prd \notin PeriodNames
        /\ period' = prd
        /\ pc' = "ValueError"
        /\ UNCHANGED <<returns, cleaned_data, rankVars, momVars, smaVars>>

NextOutlier == RemoveOutliers \/ RemoveOutliersInvalidPeriod

SpecOutlier == InitOutlier /\ [][NextOutlier]_vars

---------------------------------------------------------------------------
(* Claims about the momentum backtest (SpecMomentum) *)

RECURSIVE Dot(_, _, _)
\* sum over the first n assets of position x return, a missing return adding nothing
Dot(positions, rets, n) ==
    IF n = 0 THEN 0
    ELSE Dot(positions, rets, n - 1)
         + (IF IsNaN(rets[n]) THEN 0 ELSE positions[n] * Num(rets[n]))

\* the claimed strategy return at row t >= 2: signal[t-1] . return[t] / 2K
\* (the returns of the model are whole numbers)
LaggedReturn(signals, panel, k, t) ==
    Frac(Dot(signals[t - 1], panel[t], Len(Columns)), 2 * k)

\* C3: in both momentum backtests, for every row t after the first the strategy
\* return is the sum over the assets of signal[t-1] x return[t] divided by 2K:
\* the signals of row t and later play no part, and neither does the number of
\* assets that landed in the buckets.
C3_LaggedSignalOverTwoK ==
    /\ pc = "momentum" =>
          \A t \in 2..Len(data) :
              results.Strategy_Returns[t] = LaggedReturn(results.Signal, data, K, t)
    /\ pc = "compare" =>
          \A prd \in DOMAIN results : \A t \in 2..Len(data) :
              results[prd].strategy_returns[t] = LaggedReturn(results[prd].signals, data, K, t)

\* C3 witness: a backtest where a tie put two assets in the long bucket of row
\* t-1 although K = 1, row t's own signal differs, and the return of row t is
\* (1 + 1) / 2 = 1.
C3_Witness ==
    /\ pc = "momentum"
    /\ K = 1
    /\ \E t \in 2..Len(data) :
          /\ results.Signal[t - 1] = <<1, 1>>
          /\ results.Signal[t] # results.Signal[t - 1]
          /\ data[t] = <<R(1), R(1)>>
          /\ results.Strategy_Returns[t] = R(1)

NonDecreasing(s) == \A t \in 2..Len(s) : RLe(s[t - 1], s[t])

\* C5: the max drawdown of commodity_momentum_strategy is <= 0, and it is 0 only
\* if the cumulative-return series never decreases.
C5_DrawdownSign ==
    pc = "momentum" =>
        /\ RLe(results.attrs.Max_Drawdown, R(0))
        /\ REq(results.attrs.Max_Drawdown, R(0)) => NonDecreasing(results.Cumulative_Returns)

\* C5 witness: a backtest whose cumulative return first rose above 0 and then
\* fell back, so that the max drawdown is negative.
C5_Witness ==
    /\ pc = "momentum"
    /\ \E t \in 1..Len(data) : RGt(results.Cumulative_Returns[t], R(0))
    /\ RLt(results.attrs.Max_Drawdown, R(0))
    /\ ~NonDecreasing(results.Cumulative_Returns)

---------------------------------------------------------------------------
(* Claims about both backtests (SpecBacktest) *)

\* C4 (as claimed): the first strategy return is undefined, in the momentum
\* backtests as in the crossover backtests.
C4_FirstReturnUndefined ==
    /\ pc = "momentum" => IsNaN(results.Strategy_Returns[1])
    /\ pc = "compare" => \A prd \in DOMAIN results : IsNaN(results[prd].strategy_returns[1])
    /\ pc = "single" => IsNaN(sma.strategy_return[1])
    /\ pc = "grid" => \A p \in DOMAIN sma.strategy_returns : IsNaN(sma.strategy_returns[p][1])

ZeroVariance(s) == REq(Var(DropNaN(s)), R(0))

\* C6: whenever the strategy returns have zero variance the Sharpe ratio is the
\* literal 0, whatever the risk-free rate, in commodity_momentum_strategy, in
\* compare_momentum_periods and in the grid report, which then raises nothing.
C6_SharpeZeroGuard ==
    /\ (pc = "momentum" /\ ZeroVariance(results.Strategy_Returns)) =>
          results.attrs.Sharpe_Ratio = Zero
    /\ pc = "compare" =>
          \A prd \in DOMAIN results :
              ZeroVariance(results[prd].strategy_returns) => results[prd].Sharpe_Ratio = Zero
    /\ pc = "grid" =>
          \A i \in DOMAIN sma.sorted_strategies :
              ZeroVariance(sma.strategy_returns[sma.sorted_strategies[i][1]]) =>
                  /\ sma.raised = "none"
                  /\ sma.report[i].sharpe_ratio = Zero

\* C6 witness: a momentum backtest of zero variance whose annualized return
\* differs from the risk-free rate, so that the quotient would be x / 0.
C6_Witness ==
    /\ pc = "momentum"
    /\ ZeroVariance(results.Strategy_Returns)
    /\ RNe(results.attrs.Annualized_Return, RiskFreeRate)
    /\ \E t \in DOMAIN data : \E a \in DOMAIN Columns : results.Signal[t][a] # 0
    /\ results.attrs.Sharpe_Ratio = Zero

---------------------------------------------------------------------------
(* Claims about the outlier repair (SpecOutlier) *)

Near(series, i) == {j \in DOMAIN series : j # i /\ j >= i - 3 /\ j <= i + 3}

RECURSIVE IntSum(_, _)
IntSum(series, S) ==
    IF S = {} THEN 0
    ELSE LET j == CHOOSE x \in S : TRUE
         IN  Num(series[j]) + IntSum(series, S \ {j})

\* the mean of the values that exist among the 3 before and the 3 after place i
NeighbourMean(series, i) ==
    LET have == {j \in Near(series, i) : ~IsNaN(series[j])}
    IN  IF have = {} THEN NaN ELSE Frac(IntSum(series, have), Cardinality(have))

Exceeds(series, prd, i) ==
    ~IsNaN(series[i]) /\ Abs(Num(series[i])) > Num(threshold_map[prd])

\* C7: remove_outliers returns, at every place whose original value exceeds the
\* period threshold, the mean of the neighbours that exist among the 3 before
\* and the 3 after it in the original input, and at every other place the
\* original value.
C7_OutlierRepair ==
    pc = "cleaned" =>
        /\ Len(cleaned_data) = Len(returns)
        /\ \A i \in DOMAIN returns :
              cleaned_data[i] = IF Exceeds(returns, period, i)
                                THEN NeighbourMean(returns, i)
                                ELSE returns[i]

\* C7 witness: a repaired series whose first two values were both outliers: the
\* first holds the mean of its forward neighbours, the outlier next to it
\* included as it was in the input, and a fifth value took no part.
C7_Witness ==
    /\ pc = "cleaned"
    /\ period = "daily"
    /\ returns = <<R(3), R(-6), R(1), R(1), R(3)>>
    /\ cleaned_data = <<Frac(-4, 3), R(2), R(1), R(1), Frac(-4, 3)>>

---------------------------------------------------------------------------
(* Claims about the crossover backtest (SpecSMA) *)

Min2(a, b) == IF a < b THEN a ELSE b

ValidPairs == {p \in (1..MaxWindow) \X (1..MaxWindow) : p[1] < p[2]}

Selected == {sma.sorted_strategies[i][1] : i \in DOMAIN sma.sorted_strategies}

\* C8: the grid search evaluates exactly the pairs with short < long, and its
\* selection is the N (all, when fewer were evaluated) evaluated pairs with the
\* largest final compounded return, each with that return, largest first.
C8_TopNByCumulativeReturn ==
    pc = "grid" =>
        /\ DOMAIN sma.strategy_results = ValidPairs
        /\ \A p \in ValidPairs :
              sma.strategy_results[p] = FinalCompounded(sma.strategy_returns[p])
        /\ Len(sma.sorted_strategies) = Min2(sma.top_n, Cardinality(ValidPairs))
        /\ Cardinality(Selected) = Len(sma.sorted_strategies)
        /\ \A i \in DOMAIN sma.sorted_strategies :
              /\ sma.sorted_strategies[i][1] \in ValidPairs
              /\ sma.sorted_strategies[i][2] = sma.strategy_results[sma.sorted_strategies[i][1]]
        /\ \A i, j \in DOMAIN sma.sorted_strategies :
              i < j => ~RLt(sma.sorted_strategies[i][2], sma.sorted_strategies[j][2])
        /\ \A p \in Selected : \A q \in ValidPairs \ Selected :
              ~RGt(sma.strategy_results[q], sma.strategy_results[p])

\* C8 witness: a grid search asked for 2 strategies whose best pair is not the
\* first one evaluated and which left out a pair with a smaller return.
C8_Witness ==
    /\ pc = "grid"
    /\ sma.top_n = 2
    /\ Len(sma.sorted_strategies) = 2
    /\ sma.sorted_strategies[1][1] # sma.evaluated[1]
    /\ RGt(sma.sorted_strategies[1][2], sma.sorted_strategies[2][2])
    /\ \E q \in ValidPairs \ Selected :
          RLt(sma.strategy_results[q], sma.sorted_strategies[2][2])

\* C9 (as claimed): the single-pair path given short >= long signals an error,
\* computes no signal and writes no result column.
C9_SinglePathRejectsBadPair ==
    (pc = "single" /\ sma.short_ma >= sma.long_ma) =>
        /\ sma.raised # "none"
        /\ "strategy_cumulative" \notin DOMAIN df
        /\ "baseline_cumulative" \notin DOMAIN df

\* the sum of the w prices ending at row t, for t >= w
RECURSIVE WindowSum(_, _, _)
WindowSum(prices, w, t) ==
    IF w = 0 THEN 0 ELSE Num(prices[t]) + WindowSum(prices, w - 1, t - 1)

\* short mean > long mean at row t, both windows being full (whole-number prices)
MeanAbove(prices, w1, w2, t) ==
    /\ t >= w1 /\ t >= w2
    /\ WindowSum(prices, w1, t) * w2 > WindowSum(prices, w2, t) * w1

ClaimedSignal(prices, short_ma, long_ma, t) ==
    IF MeanAbove(prices, short_ma, long_ma, t) THEN 1
    ELSE IF MeanAbove(prices, long_ma, short_ma, t) THEN -1
    ELSE 0

\* C10: at every row the crossover signal is +1 when the short mean is above the
\* long mean, -1 when it is below, and 0 when they are equal or one of them is
\* undefined; it is decided by the two means of that row alone.
C10_CrossoverSignal ==
    /\ pc = "single" =>
          \A t \in DOMAIN df[Col] :
              sma.signal[t] = ClaimedSignal(df[Col], sma.short_ma, sma.long_ma, t)
    /\ pc = "grid" =>
          \A p \in DOMAIN sma.signals : \A t \in DOMAIN df[Col] :
              sma.signals[p][t] = ClaimedSignal(df[Col], p[1], p[2], t)

\* C10 witness: a single-pair run whose signal takes the three values, 0 once
\* with a window not yet full and once with both means defined and equal.
C10_Witness ==
    /\ pc = "single"
    /\ \E t1, t2, t3, t4 \in DOMAIN df[Col] :
          /\ sma.signal[t1] = 1
          /\ sma.signal[t2] = -1
          /\ sma.signal[t3] = 0 /\ IsNaN(sma.SMA_long[t3])
          /\ sma.signal[t4] = 0 /\ REq(sma.SMA_short[t4], sma.SMA_long[t4])

---------------------------------------------------------------------------
(* Claims about the row ranker (SpecRank) *)

\* the defined scores of r as a multiset laid out largest first: one entry per asset
RECURSIVE Ordered(_, _)
Ordered(r, left) ==
    IF left = {} THEN <<>>
    ELSE LET i == CHOOSE a \in left : \A b \in left : ~RGt(r[b], r[a])
         IN  <<r[i]>> \o Ordered(r, left \ {i})

\* rank-min: the first place, in the descending layout, that holds the asset's score
MinRank(r, i) ==
    LET o == Ordered(r, Defined(r))
    IN  CHOOSE p \in DOMAIN o : REq(o[p], r[i]) /\ \A q \in 1..(p - 1) : ~REq(o[q], r[i])

InLong(r, n, i) == ~IsNaN(r[i]) /\ MinRank(r, i) <= n

InShort(r, n, i) == ~IsNaN(r[i]) /\ MinRank(r, i) > Len(r) - n

Longs(sig) == {i \in DOMAIN sig : sig[i] = 1}

Shorts(sig) == {i \in DOMAIN sig : sig[i] = -1}

NoTies(r) == \A i, j \in DOMAIN r : i # j => ~REq(r[i], r[j])

\* C1 (as amended): the row signal is the long indicator (rank-min rank <= K)
\* minus the short indicator (rank > N - K): +1 for an asset in the long bucket
\* only, -1 for an asset in the short bucket only, 0 for every other asset, an
\* asset in both buckets and an asset with an undefined score included.
C1_SignalIsLongMinusShort ==
    pc = "ranked" =>
        \A i \in DOMAIN row :
            row_signal[i] = AsInt(InLong(row, top_n, i)) - AsInt(InShort(row, top_n, i))

\* C1 witness: the row [5, 5, 3, 1] with K = 1 has been ranked: both 5s are long,
\* the 3 is not, the 1 is short.
C1_Witness ==
    /\ pc = "ranked"
    /\ row = <<R(5), R(5), R(3), R(1)>>
    /\ top_n = 1
    /\ row_signal = <<1, 1, 0, -1>>

\* C1 (as claimed): +1 for every asset with rank <= K, -1 for every asset with
\* rank > N - K, 0 for every other asset and for an undefined score.
C1_Original ==
    pc = "ranked" =>
        \A i \in DOMAIN row :
            /\ InLong(row, top_n, i) => row_signal[i] = 1
            /\ InShort(row, top_n, i) => row_signal[i] = -1
            /\ (~InLong(row, top_n, i) /\ ~InShort(row, top_n, i)) => row_signal[i] = 0

\* C2 (as claimed): with every score defined and N >= 2K, at least K assets are
\* long and at least K are short, and exactly K of each when the row has no ties.
C2_AtLeastKEachSide ==
    (pc = "ranked" /\ Defined(row) = DOMAIN row /\ Len(row) >= 2 * top_n) =>
        /\ Cardinality(Longs(row_signal)) >= top_n
        /\ Cardinality(Shorts(row_signal)) >= top_n
        /\ NoTies(row) =>
              /\ Cardinality(Longs(row_signal)) = top_n
              /\ Cardinality(Shorts(row_signal)) = top_n

===========================================================================
